---------------------------- MODULE Spec2Model ----------------------------
(***************************************************************************)
(* Identity-resolution subsystem of sietch-faces: the Claim/Merge service  *)
(* (app/services/claim_service.py) over the Person / Face / User tables    *)
(* (app/models.py), as driven through a SQLAlchemy session created with    *)
(* autocommit=False, autoflush=False (app/database.py).                    *)
(***************************************************************************)
EXTENDS Integers, Sequences, FiniteSets, TLC

(***************************************************************************)
(* Bounds of the model.                                                    *)
(***************************************************************************)
MaxPersons == 2
MaxFaces == 2
MaxLen == 2

(***************************************************************************)
(* Values.                                                                 *)
(***************************************************************************)
Users == {"u1", "u2"}
NoUser == "none"
NoName == "none"
NoPerson == 0
Username(u) == IF u = "u1" THEN "alice" ELSE "bob"

PersonIds == 1..MaxPersons
FaceIds == 1..MaxFaces
IdLists == UNION {[1..n -> PersonIds] : n \in 0..MaxLen}

AbsentPerson == [exists |-> FALSE, is_claimed |-> FALSE, user_id |-> NoUser, name |-> NoName]
AbsentFace == [exists |-> FALSE, person_id |-> NoPerson]
AbsentUser == [exists |-> FALSE, person_id |-> NoPerson]

EmptyDb == [persons |-> [p \in PersonIds |-> AbsentPerson], faces |-> [f \in FaceIds |-> AbsentFace], users |-> [u \in Users |-> AbsentUser]]

VARIABLES db, fk_enforced, last, sess

vars == <<db, fk_enforced, last, sess>>

(***************************************************************************)
(* Reading the tables.                                                     *)
(***************************************************************************)
SetMax(S) == IF S = {} THEN 0 ELSE CHOOSE m \in S : \A x \in S : x <= m

Range(seq) == {seq[i] : i \in 1..Len(seq)}

RECURSIVE SumOver(_, _)
SumOver(S, g) == IF S = {} THEN 0 ELSE LET x == CHOOSE y \in S : TRUE IN g[x] + SumOver(S \ {x}, g)

PersonExists(d, p) == p \in PersonIds /\ d.persons[p].exists

ExistingPersons(d) == {p \in PersonIds : d.persons[p].exists}

ExistingFaces(d) == {f \in FaceIds : d.faces[f].exists}

FacesOf(d, p) == {f \in FaceIds : d.faces[f].exists /\ d.faces[f].person_id = p}

(* The id an INSERT gets from an Integer primary key: one more than the    *)
(* largest id in the table (SQLite's rowid rule).                           *)
NewPersonId(d) == SetMax(ExistingPersons(d)) + 1

NewFaceId(d) == SetMax(ExistingFaces(d)) + 1

(* The id of the next User row (a fresh uuid4): "u1" names the first user  *)
(* registered, "u2" the second.                                            *)
NewUserId(d) == IF ~d.users["u1"].exists THEN "u1" ELSE IF ~d.users["u2"].exists THEN "u2" ELSE NoUser

(* The foreign keys the schema declares: users.person_id -> persons.id,    *)
(* persons.user_id -> users.id, faces.person_id -> persons.id.            *)
FKValid(d) ==
    /\ \A u \in Users : d.users[u].exists /\ d.users[u].person_id # NoPerson => PersonExists(d, d.users[u].person_id)
    /\ \A p \in PersonIds : d.persons[p].exists /\ d.persons[p].user_id # NoUser => d.users[d.persons[p].user_id].exists
    /\ \A f \in FaceIds : d.faces[f].exists /\ d.faces[f].person_id # NoPerson => PersonExists(d, d.faces[f].person_id)

(***************************************************************************)
(* What a call returns.                                                    *)
(***************************************************************************)
NoResult == [kind |-> "none", claimed_count |-> 0, person_ids |-> <<>>, total_photos |-> 0, merged_count |-> 0, total_faces_moved |-> 0, ok |-> FALSE]

NoCall == [op |-> "none", user |-> NoUser, ids |-> <<>>, target |-> NoPerson, result |-> NoResult, pre |-> EmptyDb]

(***************************************************************************)
(* The unit of work of one call: the objects the session holds and the     *)
(* statements of its open transaction.  With autoflush=False nothing the   *)
(* ORM changed in memory reaches the database before commit(); a bulk      *)
(* Query.update() is sent at once, inside the transaction.                 *)
(***************************************************************************)
(* A value no id column holds: the session holds no value of its own.     *)
NoOverride == NoPerson - 1

(* start keeps the committed rows as they were when the call began: it is  *)
(* history, kept to state what a call did, and no handler reads it.        *)

IdleSession == [op |-> "idle", pc |-> "idle", user |-> NoUser, ids |-> <<>>, target |-> NoPerson, i |-> 1, user_person_id |-> NoPerson, user_dirty |-> FALSE, claimed |-> {}, unclaimed |-> {}, name_dirty |-> {}, faces_len |-> [p \in PersonIds |-> NoOverride], tx_faces |-> [f \in FaceIds |-> NoOverride], deleted |-> {}, deleted_faces |-> {}, start |-> EmptyDb, result |-> NoResult]

(* The rows a statement of the session sees: the committed rows, overlaid  *)
(* with the rows its own transaction already wrote.                        *)
TxFacePerson(d, s, f) == IF s.tx_faces[f] # NoOverride THEN s.tx_faces[f] ELSE d.faces[f].person_id

TxFacesOf(d, s, p) == {f \in FaceIds : d.faces[f].exists /\ TxFacePerson(d, s, f) = p}

(***************************************************************************)
(* ClaimService.claim_persons                                              *)
(***************************************************************************)
ClaimBegin(d, user, ids) == [IdleSession EXCEPT !.op = "claim", !.pc = "loop", !.user = user, !.ids = ids, !.start = d, !.user_person_id = d.users[user].person_id]

(* db.query(Person).filter(Person.id == person_id, Person.is_claimed ==    *)
(* False).first(): evaluated on the rows of the database.                  *)
QueryUnclaimed(d, p) == PersonExists(d, p) /\ ~d.persons[p].is_claimed

(* One iteration of the for loop over person_ids.                          *)
ClaimIter(d, s, p) ==
    IF QueryUnclaimed(d, p)
    THEN LET first == p \notin s.claimed
             flen == IF s.faces_len[p] # NoOverride THEN s.faces_len[p] ELSE Cardinality(FacesOf(d, p))
         IN [s EXCEPT !.claimed = @ \cup {p},
                      !.name_dirty = IF first /\ d.persons[p].name # Username(s.user) THEN @ \cup {p} ELSE @,
                      !.faces_len[p] = flen,
                      !.result.total_photos = @ + flen,
                      !.result.claimed_count = @ + 1,
                      !.i = @ + 1]
    ELSE [s EXCEPT !.i = @ + 1]

(* A variant that points the user at the first id whenever a claim was     *)
(* counted, whether or not the user already has a primary Person.          *)
ClaimSetPrimaryOverwrite(s) ==
    IF s.result.claimed_count > 0
    THEN [s EXCEPT !.user_person_id = s.ids[1], !.user_dirty = (s.user_person_id # s.ids[1]), !.pc = "commit"]
    ELSE [s EXCEPT !.pc = "commit"]

(* if not user.person_id and claimed_count > 0: user.person_id = person_ids[0] *)
ClaimSetPrimary(s) ==
    IF s.user_person_id = NoPerson /\ s.result.claimed_count > 0
    THEN [s EXCEPT !.user_person_id = s.ids[1], !.user_dirty = TRUE, !.pc = "commit"]
    ELSE [s EXCEPT !.pc = "commit"]

ClaimReturn(s) == [s.result EXCEPT !.kind = "ok", !.person_ids = SubSeq(s.ids, 1, s.result.claimed_count)]

(***************************************************************************)
(* Session.commit(): flush the unit of work, then commit the transaction.  *)
(***************************************************************************)
(* A variant whose unclaim clears the flag and keeps the owner.            *)
FlushPersonsKeepOwner(d, s) == [p \in PersonIds |->
    IF p \in s.deleted THEN AbsentPerson
    ELSE IF p \in s.claimed /\ d.persons[p].exists
         THEN [d.persons[p] EXCEPT !.is_claimed = TRUE, !.user_id = s.user, !.name = IF p \in s.name_dirty THEN Username(s.user) ELSE @]
         ELSE IF p \in s.unclaimed /\ d.persons[p].exists
              THEN [d.persons[p] EXCEPT !.is_claimed = FALSE]
              ELSE d.persons[p]]

FlushPersons(d, s) == [p \in PersonIds |->
    IF p \in s.deleted THEN AbsentPerson
    ELSE IF p \in s.claimed /\ d.persons[p].exists
         THEN [d.persons[p] EXCEPT !.is_claimed = TRUE, !.user_id = s.user, !.name = IF p \in s.name_dirty THEN Username(s.user) ELSE @]
         ELSE IF p \in s.unclaimed /\ d.persons[p].exists
              THEN [d.persons[p] EXCEPT !.is_claimed = FALSE, !.user_id = NoUser]
              ELSE d.persons[p]]

FlushFaces(d, s) == [f \in FaceIds |->
    IF f \in s.deleted_faces THEN AbsentFace
    ELSE IF d.faces[f].exists /\ s.tx_faces[f] # NoOverride THEN [d.faces[f] EXCEPT !.person_id = s.tx_faces[f]]
         ELSE d.faces[f]]

FlushUsers(d, s) == [u \in Users |->
    IF s.user_dirty /\ u = s.user THEN [d.users[u] EXCEPT !.person_id = s.user_person_id] ELSE d.users[u]]

Flush(d, s) == [persons |-> FlushPersons(d, s), faces |-> FlushFaces(d, s), users |-> FlushUsers(d, s)]

(* An UPDATE of a row that is gone raises StaleDataError; a statement      *)
(* that breaks a foreign key raises IntegrityError where the store         *)
(* enforces foreign keys.  Either way commit() raises and nothing of the   *)
(* transaction is kept.                                                    *)
CommitRaises(d, s, fk) ==
    \/ \E p \in s.claimed \cup s.unclaimed : ~d.persons[p].exists
    \/ fk /\ ~FKValid(Flush(d, s))

RECURSIVE ClaimLoop(_, _)
ClaimLoop(d, s) == IF s.i > Len(s.ids) THEN ClaimSetPrimary(s) ELSE ClaimLoop(d, ClaimIter(d, s, s.ids[s.i]))

(***************************************************************************)
(* ClaimService.merge_persons                                              *)
(***************************************************************************)
(* A variant that starts the loop without looking the target up.           *)
MergeBeginUnchecked(d, target, ids) == [IdleSession EXCEPT !.op = "merge", !.pc = "loop", !.target = target, !.ids = ids, !.start = d]

(* target_person = db.query(Person).filter(Person.id == target).first();   *)
(* if not target_person: return {"error": ...}                             *)
MergeBegin(d, target, ids) ==
    IF PersonExists(d, target)
    THEN [IdleSession EXCEPT !.op = "merge", !.pc = "loop", !.target = target, !.ids = ids, !.start = d]
    ELSE [IdleSession EXCEPT !.op = "merge", !.pc = "done", !.target = target, !.ids = ids, !.start = d, !.result = [NoResult EXCEPT !.kind = "error"]]

(* One iteration of the for loop over source_person_ids: the bulk UPDATE   *)
(* of faces.person_id, then db.delete(source_person), whose delete cascade *)
(* takes the faces the source's collection then holds.                     *)
MergeIter(d, s, src) ==
    IF src = s.target \/ ~PersonExists(d, src)
    THEN [s EXCEPT !.i = @ + 1]
    ELSE LET moved == TxFacesOf(d, s, src)
             s2 == [s EXCEPT !.tx_faces = [f \in FaceIds |-> IF f \in moved THEN s.target ELSE @[f]]]
             cascade == IF src \in s.deleted THEN {} ELSE TxFacesOf(d, s2, src)
         IN [s2 EXCEPT !.deleted = @ \cup {src},
                       !.deleted_faces = @ \cup cascade,
                       !.result.total_faces_moved = @ + Cardinality(moved),
                       !.result.merged_count = @ + 1,
                       !.i = @ + 1]

MergeEnd(s) == [s EXCEPT !.pc = "commit"]

MergeReturn(s) == IF s.pc = "commit" THEN [s.result EXCEPT !.kind = "ok"] ELSE s.result

RECURSIVE MergeLoop(_, _)
MergeLoop(d, s) == IF s.pc # "loop" THEN s ELSE IF s.i > Len(s.ids) THEN MergeEnd(s) ELSE MergeLoop(d, MergeIter(d, s, s.ids[s.i]))

(***************************************************************************)
(* ClaimService.transfer_person_to_user                                    *)
(***************************************************************************)
(* A variant that points the user at the transferred Person whether or not *)
(* the user already has a primary Person.                                  *)
TransferRunOverwrite(d, user, p) ==
    LET s == [IdleSession EXCEPT !.op = "transfer", !.user = user, !.ids = <<p>>, !.user_person_id = d.users[user].person_id]
    IN IF ~QueryUnclaimed(d, p)
       THEN [s EXCEPT !.pc = "done", !.result = [NoResult EXCEPT !.kind = "ok", !.ok = FALSE]]
       ELSE [s EXCEPT !.pc = "commit",
                      !.claimed = {p},
                      !.name_dirty = IF d.persons[p].name # Username(user) THEN {p} ELSE {},
                      !.user_person_id = p,
                      !.user_dirty = (s.user_person_id # p),
                      !.result = [NoResult EXCEPT !.kind = "ok", !.ok = TRUE]]

TransferRun(d, user, p) ==
    LET s == [IdleSession EXCEPT !.op = "transfer", !.user = user, !.ids = <<p>>, !.user_person_id = d.users[user].person_id]
    IN IF ~QueryUnclaimed(d, p)
       THEN [s EXCEPT !.pc = "done", !.result = [NoResult EXCEPT !.kind = "ok", !.ok = FALSE]]
       ELSE [s EXCEPT !.pc = "commit",
                      !.claimed = {p},
                      !.name_dirty = IF d.persons[p].name # Username(user) THEN {p} ELSE {},
                      !.user_person_id = IF @ = NoPerson THEN p ELSE @,
                      !.user_dirty = (s.user_person_id = NoPerson),
                      !.result = [NoResult EXCEPT !.kind = "ok", !.ok = TRUE]]

(***************************************************************************)
(* ClaimService.unclaim_person                                             *)
(***************************************************************************)
(* A variant that finds any Claimed Person, whoever owns it.               *)
QueryClaimed(d, p, user) == PersonExists(d, p) /\ d.persons[p].is_claimed

(* db.query(Person).filter(Person.id == person_id, Person.user_id == user.id).first() *)
QueryOwned(d, p, user) == PersonExists(d, p) /\ d.persons[p].user_id = user

(* A variant that clears the user's primary Person whichever Person is     *)
(* unclaimed.                                                              *)
UnclaimRunAlwaysClear(d, user, p) ==
    LET s == [IdleSession EXCEPT !.op = "unclaim", !.user = user, !.ids = <<p>>, !.user_person_id = d.users[user].person_id]
    IN IF ~QueryOwned(d, p, user)
       THEN [s EXCEPT !.pc = "done", !.result = [NoResult EXCEPT !.kind = "ok", !.ok = FALSE]]
       ELSE [s EXCEPT !.pc = "commit",
                      !.unclaimed = {p},
                      !.user_person_id = NoPerson,
                      !.user_dirty = (s.user_person_id # NoPerson),
                      !.result = [NoResult EXCEPT !.kind = "ok", !.ok = TRUE]]

UnclaimRun(d, user, p) ==
    LET s == [IdleSession EXCEPT !.op = "unclaim", !.user = user, !.ids = <<p>>, !.user_person_id = d.users[user].person_id]
    IN IF ~QueryOwned(d, p, user)
       THEN [s EXCEPT !.pc = "done", !.result = [NoResult EXCEPT !.kind = "ok", !.ok = FALSE]]
       ELSE [s EXCEPT !.pc = "commit",
                      !.unclaimed = {p},
                      !.user_person_id = IF @ = p THEN NoPerson ELSE @,
                      !.user_dirty = (s.user_person_id = p),
                      !.result = [NoResult EXCEPT !.kind = "ok", !.ok = TRUE]]

(* A call that got to commit(): the database after it and what the caller  *)
(* gets; a call that returned early committed nothing.                     *)
Outcome(d, s, fk, ret) ==
    IF s.pc # "commit" THEN [db |-> d, result |-> ret]
    ELSE IF CommitRaises(d, s, fk) THEN [db |-> d, result |-> [NoResult EXCEPT !.kind = "raise"]]
    ELSE [db |-> Flush(d, s), result |-> ret]

(***************************************************************************)
(* The rows other requests create.                                         *)
(***************************************************************************)
(* register_with_face: a User, its Person (is_claimed=True, user_id=user.id), *)
(* user.person_id = person.id, and the enrolled Face.                      *)
RegisterDb(d, u) ==
    LET p == NewPersonId(d)
        f == NewFaceId(d)
    IN [persons |-> [d.persons EXCEPT ![p] = [exists |-> TRUE, is_claimed |-> TRUE, user_id |-> u, name |-> NoName]],
        faces |-> [d.faces EXCEPT ![f] = [exists |-> TRUE, person_id |-> p]],
        users |-> [d.users EXCEPT ![u] = [exists |-> TRUE, person_id |-> p]]]

(* process_photo, one detected face: the Face joins the Person of its best *)
(* match or a new Person(is_claimed=False).                                *)
PhotoDb(d, matched) ==
    LET p == IF matched = NoPerson THEN NewPersonId(d) ELSE matched
        f == NewFaceId(d)
    IN [persons |-> IF matched = NoPerson THEN [d.persons EXCEPT ![p] = [exists |-> TRUE, is_claimed |-> FALSE, user_id |-> NoUser, name |-> NoName]] ELSE d.persons,
        faces |-> [d.faces EXCEPT ![f] = [exists |-> TRUE, person_id |-> p]],
        users |-> d.users]

(***************************************************************************)
(* Requests served one at a time.                                          *)
(***************************************************************************)
Init ==
    /\ db = EmptyDb
    /\ fk_enforced \in BOOLEAN
    /\ last = NoCall
    /\ sess = <<>>

Register(u) ==
    /\ last = NoCall
    /\ u = NewUserId(db)
    /\ NewPersonId(db) \in PersonIds
    /\ NewFaceId(db) \in FaceIds
    /\ db' = RegisterDb(db, u)
    /\ last' = [NoCall EXCEPT !.op = "register", !.user = u, !.pre = db]
    /\ UNCHANGED <<fk_enforced, sess>>

ProcessPhoto(matched) ==
    /\ last = NoCall
    /\ \E u \in Users : db.users[u].exists
    /\ NewFaceId(db) \in FaceIds
    /\ \/ matched = NoPerson /\ NewPersonId(db) \in PersonIds
       \/ matched # NoPerson /\ FacesOf(db, matched) # {}
    /\ db' = PhotoDb(db, matched)
    /\ last' = [NoCall EXCEPT !.op = "photo", !.target = matched, !.pre = db]
    /\ UNCHANGED <<fk_enforced, sess>>

ClaimPersons(user, ids) ==
    /\ last = NoCall
    /\ db.users[user].exists
    /\ LET s == ClaimLoop(db, ClaimBegin(db, user, ids))
           o == Outcome(db, s, fk_enforced, ClaimReturn(s))
       IN /\ db' = o.db
          /\ last' = [NoCall EXCEPT !.op = "claim", !.user = user, !.ids = ids, !.pre = db, !.result = o.result]
    /\ UNCHANGED <<fk_enforced, sess>>

MergePersons(target, ids) ==
    /\ last = NoCall
    /\ LET s == MergeLoop(db, MergeBegin(db, target, ids))
           o == Outcome(db, s, fk_enforced, MergeReturn(s))
       IN /\ db' = o.db
          /\ last' = [NoCall EXCEPT !.op = "merge", !.target = target, !.ids = ids, !.pre = db, !.result = o.result]
    /\ UNCHANGED <<fk_enforced, sess>>

TransferPersonToUser(p, user) ==
    /\ last = NoCall
    /\ db.users[user].exists
    /\ LET s == TransferRun(db, user, p)
           o == Outcome(db, s, fk_enforced, s.result)
       IN /\ db' = o.db
          /\ last' = [NoCall EXCEPT !.op = "transfer", !.user = user, !.target = p, !.pre = db, !.result = o.result]
    /\ UNCHANGED <<fk_enforced, sess>>

UnclaimPerson(p, user) ==
    /\ last = NoCall
    /\ db.users[user].exists
    /\ LET s == UnclaimRun(db, user, p)
           o == Outcome(db, s, fk_enforced, s.result)
       IN /\ db' = o.db
          /\ last' = [NoCall EXCEPT !.op = "unclaim", !.user = user, !.target = p, !.pre = db, !.result = o.result]
    /\ UNCHANGED <<fk_enforced, sess>>

(* The caller has its answer; the next request is served.                  *)
NextRequest ==
    /\ last # NoCall
    /\ last' = NoCall
    /\ UNCHANGED <<db, fk_enforced, sess>>

Next ==
    \/ NextRequest
    \/ \E u \in Users : Register(u)
    \/ \E m \in {NoPerson} \cup PersonIds : ProcessPhoto(m)
    \/ \E u \in Users, ids \in IdLists : ClaimPersons(u, ids)
    \/ \E p \in PersonIds, ids \in IdLists : MergePersons(p, ids)
    \/ \E p \in PersonIds, u \in Users : TransferPersonToUser(p, u)
    \/ \E p \in PersonIds, u \in Users : UnclaimPerson(p, u)

Spec == Init /\ [][Next]_vars

(***************************************************************************)
(* Properties of the calls served one at a time.  last holds the call just *)
(* served: its arguments, what it returned and the rows before it.         *)
(***************************************************************************)
ClaimCall == last.op = "claim"

MergeCall == last.op = "merge"

(* The Persons a claim_persons call could claim: the ids of its list that  *)
(* existed and were Unclaimed when it ran.                                 *)
Claimable == {p \in Range(last.ids) : QueryUnclaimed(last.pre, p)}

(* The Persons the call claimed: Unclaimed before it, owned by its user    *)
(* after it.                                                               *)
ClaimedByCall == {p \in PersonIds : QueryUnclaimed(last.pre, p) /\ db.persons[p].exists /\ db.persons[p].is_claimed /\ db.persons[p].user_id = last.user}

(* The existing source Persons of a merge_persons call, the target aside.  *)
MergeSources == {p \in Range(last.ids) \ {last.target} : PersonExists(last.pre, p)}

(* C1: after any sequence of registrations, photo uploads, claim, transfer, *)
(* unclaim and merge calls, every existing Person has is_claimed = true if *)
(* and only if its user_id is non-null.                                    *)
C1_ClaimedIffOwned == \A p \in PersonIds : db.persons[p].exists => (db.persons[p].is_claimed <=> db.persons[p].user_id # NoUser)

(* A user has just unclaimed a Person it owned, next to a Person that is   *)
(* still claimed.                                                          *)
C1_Witness ==
    /\ last.op = "unclaim" /\ last.result.kind = "ok" /\ last.result.ok
    /\ last.pre.persons[last.target].is_claimed
    /\ db.persons[last.target].exists /\ ~db.persons[last.target].is_claimed
    /\ \E p \in PersonIds : db.persons[p].exists /\ db.persons[p].is_claimed

(* C2: after any sequence of registration, claim, transfer, unclaim and    *)
(* merge calls, every User whose primary Person pointer is set points to   *)
(* an existing Person whose user_id is that User's id.                     *)
C2_PrimaryBelongsToUser == \A u \in Users : db.users[u].exists /\ db.users[u].person_id # NoPerson => PersonExists(db, db.users[u].person_id) /\ db.persons[db.users[u].person_id].user_id = u

(* C5: claim_persons(user, ids) raises nothing and claims exactly the ids  *)
(* that exist and are Unclaimed when it runs: each gets is_claimed = true, *)
(* user_id = user.id, name = user.username; every other Person is left as  *)
(* it was; claimed_count is the number of Persons claimed, an id repeated  *)
(* in the list counting once.                                              *)
C5_ClaimsExactlyUnclaimed ==
    ClaimCall =>
        /\ last.result.kind = "ok"
        /\ \A p \in Claimable : db.persons[p] = [exists |-> TRUE, is_claimed |-> TRUE, user_id |-> last.user, name |-> Username(last.user)]
        /\ \A p \in PersonIds \ Claimable : db.persons[p] = last.pre.persons[p]
        /\ last.result.claimed_count = Cardinality(Claimable)

(* C6: claim_persons leaves the user's primary Person at the first id of   *)
(* the list exactly when the user had none before the call and the call    *)
(* claimed at least one Person, whichever it was; otherwise the pointer is *)
(* what it was before the call.                                            *)
C6_PrimarySetToFirst ==
    ClaimCall =>
        LET had == last.pre.users[last.user].person_id
        IN db.users[last.user].person_id = IF had = NoPerson /\ ClaimedByCall # {} THEN last.ids[1] ELSE had

(* A user without a primary Person claimed a list whose first id was not   *)
(* claimable and whose second was: the pointer is the first id.            *)
C6_Witness ==
    /\ ClaimCall /\ last.result.kind = "ok"
    /\ last.pre.users[last.user].person_id = NoPerson
    /\ Len(last.ids) = 2 /\ last.ids[1] \notin ClaimedByCall /\ last.ids[2] \in ClaimedByCall
    /\ db.users[last.user].person_id = last.ids[1]

(* C7: the person_ids a claim_persons call returns are the Persons the     *)
(* call claimed, and only those.                                           *)
C7_ReturnedIdsAreClaimed == ClaimCall /\ last.result.kind = "ok" => Range(last.result.person_ids) = ClaimedByCall

(* C8: after merge_persons(T, sources) with T existing, every Face of an   *)
(* existing source other than T belongs to T, no Face was created or       *)
(* deleted, no such source exists any more, and total_faces_moved is the   *)
(* sum of the face counts those sources had before the call.               *)
C8_MergeMovesAllFaces ==
    MergeCall /\ PersonExists(last.pre, last.target) =>
        /\ \A f \in FaceIds : last.pre.faces[f].exists /\ last.pre.faces[f].person_id \in MergeSources => db.faces[f].exists /\ db.faces[f].person_id = last.target
        /\ ExistingFaces(db) = ExistingFaces(last.pre)
        /\ \A p \in MergeSources : ~db.persons[p].exists
        /\ last.result.total_faces_moved = SumOver(MergeSources, [p \in PersonIds |-> Cardinality(FacesOf(last.pre, p))])

(* C9: merge_persons with a target id that does not exist returns the      *)
(* error and changes no row, whatever the source list.                     *)
C9_MissingTargetNoMutation == MergeCall /\ ~PersonExists(last.pre, last.target) => last.result.kind = "error" /\ db = last.pre

(* The target is missing and the list names an existing Person with faces. *)
C9_Witness ==
    /\ MergeCall /\ ~PersonExists(last.pre, last.target)
    /\ \E p \in Range(last.ids) : PersonExists(last.pre, p) /\ FacesOf(last.pre, p) # {}
    /\ last.result.kind = "error"

(* C10: a merge_persons call that returns keeps the target and the faces   *)
(* it had, and its merged_count is the number of Persons it deleted, an id *)
(* repeated in the list counting once.                                     *)
C10_TargetSurvivesCountExact ==
    MergeCall /\ last.result.kind = "ok" =>
        /\ PersonExists(db, last.target)
        /\ FacesOf(last.pre, last.target) \subseteq FacesOf(db, last.target)
        /\ last.result.merged_count = Cardinality(ExistingPersons(last.pre) \ ExistingPersons(db))

UnclaimCall == last.op = "unclaim"

TransferCall == last.op = "transfer"

(* C11: unclaim_person(person_id, user) returns false and changes no row   *)
(* whenever the Person does not exist or its user_id is not the user's id, *)
(* be it another user's Person or an Unclaimed one.                        *)
C11_UnclaimNotOwnedNoOp == UnclaimCall /\ ~(PersonExists(last.pre, last.target) /\ last.pre.persons[last.target].user_id = last.user) => last.result.kind = "ok" /\ ~last.result.ok /\ db = last.pre

(* A user asked to unclaim a Person that another user owns.                *)
C11_Witness ==
    /\ UnclaimCall /\ PersonExists(last.pre, last.target)
    /\ last.pre.persons[last.target].user_id \in Users \ {last.user}
    /\ ~last.result.ok

(* C12: when the Person's user_id is the requesting user's id,             *)
(* unclaim_person returns true, sets the Person's user_id to null and      *)
(* is_claimed to false, clears the user's primary Person if and only if it *)
(* pointed at this Person, and changes no other Person or User.            *)
C12_UnclaimOwned ==
    UnclaimCall /\ PersonExists(last.pre, last.target) /\ last.pre.persons[last.target].user_id = last.user =>
        LET had == last.pre.users[last.user].person_id
        IN /\ last.result.kind = "ok" /\ last.result.ok
           /\ db.persons = [last.pre.persons EXCEPT ![last.target] = [@ EXCEPT !.is_claimed = FALSE, !.user_id = NoUser]]
           /\ db.users = [last.pre.users EXCEPT ![last.user] = [@ EXCEPT !.person_id = IF had = last.target THEN NoPerson ELSE had]]
           /\ db.faces = last.pre.faces

(* A user unclaimed a Person it owned that was not its primary Person: the *)
(* pointer stays.                                                          *)
C12_Witness ==
    /\ UnclaimCall /\ last.result.ok
    /\ last.pre.persons[last.target].user_id = last.user
    /\ last.pre.users[last.user].person_id \notin {NoPerson, last.target}
    /\ db.users[last.user].person_id = last.pre.users[last.user].person_id

(* C13: transfer_person_to_user(person_id, user) succeeds exactly on an    *)
(* existing Unclaimed Person: it then sets is_claimed = true, user_id =    *)
(* user.id (and the name), and the user's primary Person to person_id only *)
(* if the user had none; on a Claimed or missing Person it returns none    *)
(* and changes no row; an existing primary pointer is never overwritten.   *)
C13_TransferOnlyUnclaimed ==
    TransferCall =>
        LET had == last.pre.users[last.user].person_id
        IN /\ last.result.kind = "ok"
           /\ last.result.ok <=> QueryUnclaimed(last.pre, last.target)
           /\ last.result.ok =>
                /\ db.persons = [last.pre.persons EXCEPT ![last.target] = [@ EXCEPT !.is_claimed = TRUE, !.user_id = last.user, !.name = Username(last.user)]]
                /\ db.users = [last.pre.users EXCEPT ![last.user] = [@ EXCEPT !.person_id = IF had = NoPerson THEN last.target ELSE had]]
                /\ db.faces = last.pre.faces
           /\ ~last.result.ok => db = last.pre

(* A user that has a primary Person was given an Unclaimed Person: the     *)
(* Person is the user's and the pointer is what it was.                    *)
C13_Witness ==
    /\ TransferCall /\ last.result.ok
    /\ last.pre.users[last.user].person_id \notin {NoPerson, last.target}
    /\ db.persons[last.target].user_id = last.user
    /\ db.users[last.user].person_id = last.pre.users[last.user].person_id

(***************************************************************************)
(* Two requests served at the same time, each with its own session         *)
(* (get_db) and its own transaction.  A statement reads the committed rows *)
(* and the rows its own transaction wrote; commit() publishes the          *)
(* transaction in one step.                                                *)
(***************************************************************************)
ConcLen == 1

Sessions == {1, 2}

Other(n) == 3 - n

ConcLists == UNION {[1..n -> PersonIds] : n \in 0..ConcLen}

(* The rows the requests start from: two registered users; the same after  *)
(* the first user unclaimed its Person; one user and a stranger's Person   *)
(* from an uploaded photo.                                                 *)
TwoUsers == RegisterDb(RegisterDb(EmptyDb, "u1"), "u2")

AfterUnclaim == Flush(TwoUsers, UnclaimRun(TwoUsers, "u1", 1))

WithStranger == PhotoDb(RegisterDb(EmptyDb, "u1"), NoPerson)

ConcDbs == {TwoUsers, AfterUnclaim, WithStranger}

(* A variant in which each statement is committed as it is sent.           *)
StepDbAutocommit(d, s) == [d EXCEPT !.faces = FlushFaces(d, s)]

(* The committed rows after a statement of an open transaction: with       *)
(* autocommit=False they are what they were.                               *)
StepDb(d, s) == d

(* The transaction has written rows and holds their locks.                 *)
HoldsWriteLock(s) == s.pc \in {"loop", "commit"} /\ \E f \in FaceIds : s.tx_faces[f] # NoOverride

(* The next iteration of the merge loop sends the bulk UPDATE.             *)
IssuesUpdate(d, s) == s.i <= Len(s.ids) /\ s.ids[s.i] # s.target /\ PersonExists(d, s.ids[s.i])

InitConc ==
    /\ db \in ConcDbs
    /\ fk_enforced \in BOOLEAN
    /\ last = NoCall
    /\ sess = [n \in Sessions |-> IdleSession]

ConcClaimBegin(n, user, ids) ==
    /\ sess[n].pc = "idle"
    /\ db.users[user].exists
    /\ sess' = [sess EXCEPT ![n] = ClaimBegin(db, user, ids)]
    /\ UNCHANGED <<db, fk_enforced, last>>

ConcClaimStep(n) ==
    /\ sess[n].op = "claim" /\ sess[n].pc = "loop"
    /\ LET s == IF sess[n].i <= Len(sess[n].ids) THEN ClaimIter(db, sess[n], sess[n].ids[sess[n].i]) ELSE ClaimSetPrimary(sess[n])
       IN /\ sess' = [sess EXCEPT ![n] = s]
          /\ db' = StepDb(db, s)
    /\ UNCHANGED <<fk_enforced, last>>

ConcMergeBegin(n, target, ids) ==
    /\ sess[n].pc = "idle"
    /\ sess' = [sess EXCEPT ![n] = MergeBegin(db, target, ids)]
    /\ UNCHANGED <<db, fk_enforced, last>>

ConcMergeStep(n) ==
    /\ sess[n].op = "merge" /\ sess[n].pc = "loop"
    /\ IssuesUpdate(db, sess[n]) => ~HoldsWriteLock(sess[Other(n)])
    /\ LET s == IF sess[n].i <= Len(sess[n].ids) THEN MergeIter(db, sess[n], sess[n].ids[sess[n].i]) ELSE MergeEnd(sess[n])
       IN /\ sess' = [sess EXCEPT ![n] = s]
          /\ db' = StepDb(db, s)
    /\ UNCHANGED <<fk_enforced, last>>

ConcCommit(n) ==
    /\ sess[n].pc = "commit"
    /\ LET s == sess[n]
           o == Outcome(db, s, fk_enforced, IF s.op = "claim" THEN ClaimReturn(s) ELSE MergeReturn(s))
       IN /\ db' = o.db
          /\ sess' = [sess EXCEPT ![n] = [s EXCEPT !.pc = "done", !.result = o.result]]
    /\ UNCHANGED <<fk_enforced, last>>

NextConc ==
    \/ \E n \in Sessions, u \in Users, ids \in ConcLists : ConcClaimBegin(n, u, ids)
    \/ \E n \in Sessions : ConcClaimStep(n)
    \/ \E n \in Sessions, p \in PersonIds, ids \in ConcLists : ConcMergeBegin(n, p, ids)
    \/ \E n \in Sessions : ConcMergeStep(n)
    \/ \E n \in Sessions : ConcCommit(n)

SpecConc == InitConc /\ [][NextConc]_vars

(* C3: when two different users run claim_persons at the same time on a    *)
(* Person that is Unclaimed when each call starts, exactly one call claims *)
(* it; the other does not, returns claimed_count = 0 for it, and the       *)
(* Person's user_id ends as the winner's id.                               *)
C3_ExactlyOneClaims ==
    \A p \in PersonIds :
        (/\ \A n \in Sessions : sess[n].op = "claim" /\ sess[n].pc = "done" /\ p \in Range(sess[n].ids) /\ QueryUnclaimed(sess[n].start, p)
         /\ sess[1].user # sess[2].user)
        => \E w \in Sessions :
              /\ sess[w].result.kind = "ok" /\ p \in sess[w].claimed
              /\ p \notin sess[Other(w)].claimed
              /\ sess[Other(w)].ids = <<p>> => sess[Other(w)].result.claimed_count = 0
              /\ db.persons[p].user_id = sess[w].user

(* C4: while one claim_persons or merge_persons call runs and no other     *)
(* call does, the committed rows, which are what any reader sees, are the  *)
(* rows from before the call until it has committed, and after it either   *)
(* those rows still or those rows with every write of the call applied.    *)
C4_NoIntermediateState ==
    \A n \in Sessions :
        sess[Other(n)].pc = "idle" /\ sess[n].op \in {"claim", "merge"} =>
            /\ sess[n].pc \in {"loop", "commit"} => db = sess[n].start
            /\ sess[n].pc = "done" => db = sess[n].start \/ db = Flush(sess[n].start, sess[n])

(* A merge has moved faces and marked its source deleted inside its        *)
(* transaction and has not committed; no other call runs.                  *)
C4_Witness ==
    /\ sess[2].pc = "idle"
    /\ sess[1].op = "merge" /\ sess[1].pc = "commit"
    /\ \E f \in FaceIds : sess[1].tx_faces[f] # NoOverride
    /\ sess[1].deleted # {}

(* C14: in every execution, requests running at the same time included, a *)
(* Person's user_id changes only from null to a user or from a user to     *)
(* null: no step changes a Claimed Person's owner directly to another      *)
(* user.                                                                   *)
C14_OwnerChangesViaNull == [][\A p \in PersonIds : db.persons[p].exists /\ db'.persons[p].exists /\ db'.persons[p].user_id # db.persons[p].user_id => db.persons[p].user_id = NoUser \/ db'.persons[p].user_id = NoUser]_vars

(***************************************************************************)
(* Face matching (app/services/face_matching.py, app/face_recognition.py). *)
(* The matching service only reads.  Its rows are the persons with their   *)
(* is_claimed flag and the faces, in id order, with their person_id and    *)
(* their embedding.  Embeddings are vectors of integers and a similarity   *)
(* is their dot product: scores and thresholds are on one integer scale.   *)
(***************************************************************************)
MatchPersons == 2
MatchFaces == 4

MPersonIds == 1..MatchPersons

Emb == {<<1, 0>>, <<0, 1>>}

Queries == {<<1, 0>>, <<1, 1>>, <<2, 1>>}

Thresholds == {0, 1, 2}

(* face_similarities[:3]                                                   *)
SampleLimit == 3

RECURSIVE Dot(_, _)
Dot(a, b) == IF Len(a) = 0 THEN 0 ELSE a[1] * b[1] + Dot(Tail(a), Tail(b))

(* np.dot(embedding1, embedding2); vectors of different lengths raise      *)
(* inside the try block and the except branch returns 0.0.                 *)
CalculateSimilarity(a, b) == IF Len(a) = Len(b) THEN Dot(a, b) ELSE 0

SeqMax(q) == SetMax(Range(q))

RECURSIVE SeqSum(_)
SeqSum(q) == IF Len(q) = 0 THEN 0 ELSE q[1] + SeqSum(Tail(q))

(* list.sort(key=lambda x: x[1], reverse=True): a stable sort, highest     *)
(* score first, entries of equal score in the order they had.              *)
RECURSIVE InsertByScore(_, _)
InsertByScore(x, sorted) ==
    IF Len(sorted) = 0 THEN <<x>>
    ELSE IF sorted[1].score >= x.score THEN <<sorted[1]>> \o InsertByScore(x, Tail(sorted))
         ELSE <<x>> \o sorted

RECURSIVE SortByScore(_)
SortByScore(q) == IF Len(q) = 0 THEN <<>> ELSE InsertByScore(q[Len(q)], SortByScore(SubSeq(q, 1, Len(q) - 1)))

Prefix(q, n) == SubSeq(q, 1, IF Len(q) < n THEN Len(q) ELSE n)

(* The ids of the face rows with this person_id, in id order: person.faces *)
RECURSIVE FaceIdsOf(_, _, _)
FaceIdsOf(d, p, n) == IF n = 0 THEN <<>> ELSE FaceIdsOf(d, p, n - 1) \o (IF d.faces[n].person_id = p THEN <<n>> ELSE <<>>)

PersonFaces(d, p) == FaceIdsOf(d, p, Len(d.faces))

Similarities(d, q, fs) == [i \in 1..Len(fs) |-> CalculateSimilarity(q, d.faces[fs[i]].embedding)]

(* A variant without the is_claimed filter.                                *)
UnclaimedPersonsAll(d) == {p \in MPersonIds : d.persons[p].exists}

(* db.query(Person).filter(Person.is_claimed == False).all()               *)
UnclaimedPersons(d) == {p \in MPersonIds : d.persons[p].exists /\ ~d.persons[p].is_claimed}

(* A variant that keeps the first faces of the Person as samples.          *)
SampleFacesFirst(d, q, fs) == Prefix(fs, SampleLimit)

(* The samples of a matching Person: its faces sorted by similarity, the   *)
(* first three.                                                            *)
SampleFaces(d, q, fs) ==
    LET sims == Similarities(d, q, fs)
        sorted == SortByScore([i \in 1..Len(fs) |-> [face |-> fs[i], score |-> sims[i]]])
    IN Prefix([i \in 1..Len(sorted) |-> sorted[i].face], SampleLimit)

(* The body of the loop over unclaimed_persons, the persons in id order.   *)
RECURSIVE UnclaimedMatchesUpTo(_, _, _, _)
UnclaimedMatchesUpTo(d, q, th, n) ==
    IF n = 0 THEN <<>>
    ELSE LET rest == UnclaimedMatchesUpTo(d, q, th, n - 1)
             fs == PersonFaces(d, n)
         IN IF n \notin UnclaimedPersons(d) \/ Len(fs) = 0 THEN rest
            ELSE LET confidence == SeqMax(Similarities(d, q, fs))
                 IN IF confidence >= th
                    THEN Append(rest, [person |-> n, score |-> confidence, samples |-> SampleFaces(d, q, fs)])
                    ELSE rest

FindUnclaimedMatchesResult(d, q, th) == SortByScore(UnclaimedMatchesUpTo(d, q, th, MatchPersons))

(* The rows a matching call can find: each Person absent, Unclaimed or     *)
(* Claimed; up to max faces, each with an owner and an embedding.          *)
MPersonRows == {[exists |-> FALSE, is_claimed |-> FALSE], [exists |-> TRUE, is_claimed |-> FALSE], [exists |-> TRUE, is_claimed |-> TRUE]}

FaceLists(owners, max) == UNION {[1..n -> [person_id : owners, embedding : Emb]] : n \in 0..max}

OwnersExist(d) == \A i \in 1..Len(d.faces) : d.faces[i].person_id # NoPerson => d.persons[d.faces[i].person_id].exists

(* find_unclaimed_matches reads the faces through person.faces only: the   *)
(* faces here all have a Person.                                           *)
InitUnclaimed ==
    /\ db \in [persons : [MPersonIds -> MPersonRows], faces : FaceLists(MPersonIds, MatchFaces)]
    /\ OwnersExist(db)
    /\ fk_enforced = FALSE
    /\ last = NoCall
    /\ sess = <<>>

FindUnclaimedMatches(q, th) ==
    /\ last = NoCall
    /\ last' = [op |-> "find_unclaimed_matches", query |-> q, threshold |-> th, result |-> FindUnclaimedMatchesResult(db, q, th)]
    /\ UNCHANGED <<db, fk_enforced, sess>>

NextUnclaimed ==
    \/ NextRequest
    \/ \E q \in Queries, th \in Thresholds : FindUnclaimedMatches(q, th)

SpecUnclaimed == InitUnclaimed /\ [][NextUnclaimed]_vars

UnclaimedCall == last.op = "find_unclaimed_matches"

(* The similarity of the call's query to a face row.                       *)
SimToQuery(f) == CalculateSimilarity(last.query, db.faces[f].embedding)

FacesOfPerson(p) == {f \in 1..Len(db.faces) : db.faces[f].person_id = p}

MaxSimOf(p) == SetMax({SimToQuery(f) : f \in FacesOfPerson(p)})

NonIncreasing(r) == \A i \in 1..Len(r) : \A j \in i..Len(r) : r[i].score >= r[j].score

(* C15: find_unclaimed_matches never returns a Person with is_claimed =    *)
(* true, whatever the flags of the persons are when it is called.          *)
C15_NeverReturnsClaimed == UnclaimedCall => \A i \in 1..Len(last.result) : ~db.persons[last.result[i].person].is_claimed

(* The call returned a match while a Claimed Person has a face that meets  *)
(* the threshold too.                                                      *)
C15_Witness ==
    /\ UnclaimedCall /\ Len(last.result) > 0
    /\ \E p \in MPersonIds : db.persons[p].is_claimed /\ FacesOfPerson(p) # {} /\ MaxSimOf(p) >= last.threshold

(* C16: for every Unclaimed Person with at least one face,                 *)
(* find_unclaimed_matches reports it (once) if and only if the maximum     *)
(* similarity of the query to its faces meets the threshold; the reported  *)
(* confidence is that maximum; the samples are at most 3 distinct faces of *)
(* that Person, as many as it has up to 3, none less similar than a face   *)
(* left out; the list is sorted by confidence, non-increasing.             *)
C16_UnclaimedMatchesExact ==
    UnclaimedCall =>
        /\ NonIncreasing(last.result)
        /\ \A p \in MPersonIds : db.persons[p].exists /\ ~db.persons[p].is_claimed /\ FacesOfPerson(p) # {} =>
              LET hits == {i \in 1..Len(last.result) : last.result[i].person = p}
              IN /\ Cardinality(hits) = IF MaxSimOf(p) >= last.threshold THEN 1 ELSE 0
                 /\ \A i \in hits :
                       LET m == last.result[i]
                           shown == Range(m.samples)
                       IN /\ m.score = MaxSimOf(p)
                          /\ Len(m.samples) <= SampleLimit
                          /\ Cardinality(shown) = Len(m.samples)
                          /\ shown \subseteq FacesOfPerson(p)
                          /\ Len(m.samples) = SampleLimit \/ shown = FacesOfPerson(p)
                          /\ \A f \in shown, g \in FacesOfPerson(p) \ shown : SimToQuery(f) >= SimToQuery(g)

(* A reported Person has more faces than the samples hold, and its first   *)
(* face is less similar than the others and left out.                      *)
C16_Witness ==
    /\ UnclaimedCall
    /\ \E i \in 1..Len(last.result) :
          LET p == last.result[i].person
          IN /\ Cardinality(FacesOfPerson(p)) > SampleLimit
             /\ Len(last.result[i].samples) = SampleLimit
             /\ \E f \in FacesOfPerson(p) : f \notin Range(last.result[i].samples) /\ \A g \in FacesOfPerson(p) : f <= g

(***************************************************************************)
(* find_similar_faces, auto_associate_to_user and suggest_person_merges    *)
(* read every face row, the rows without a Person (person_id NULL, as      *)
(* delete_person and an upload leave them) included.                       *)
(***************************************************************************)
FewFaces == 2

RECURSIVE IdSeq(_)
IdSeq(S) == IF S = {} THEN <<>> ELSE LET m == CHOOSE x \in S : \A y \in S : x <= y IN <<m>> \o IdSeq(S \ {m})

(* exclude_person_ids: None or an empty list (no filter), or ids.          *)
ExcludeLists == {IdSeq(S) : S \in SUBSET MPersonIds}

(* if exclude_person_ids: query.filter(~Face.person_id.in_(...)): SQL's    *)
(* NOT IN is not true of a NULL person_id, so the row is filtered out.     *)
Scanned(d, f, excl) == Len(excl) = 0 \/ (d.faces[f].person_id # NoPerson /\ d.faces[f].person_id \notin Range(excl))

RECURSIVE SimilarFacesUpTo(_, _, _, _, _)
SimilarFacesUpTo(d, q, th, excl, n) ==
    IF n = 0 THEN <<>>
    ELSE LET rest == SimilarFacesUpTo(d, q, th, excl, n - 1)
             similarity == CalculateSimilarity(q, d.faces[n].embedding)
         IN IF Scanned(d, n, excl) /\ similarity >= th THEN Append(rest, [face |-> n, score |-> similarity]) ELSE rest

FindSimilarFacesResult(d, q, th, excl) == SortByScore(SimilarFacesUpTo(d, q, th, excl, Len(d.faces)))

InitMatch ==
    /\ db \in [persons : [MPersonIds -> MPersonRows], faces : FaceLists({NoPerson} \cup MPersonIds, FewFaces)]
    /\ OwnersExist(db)
    /\ fk_enforced = FALSE
    /\ last = NoCall
    /\ sess = <<>>

FindSimilarFaces(q, th, excl) ==
    /\ last = NoCall
    /\ last' = [op |-> "find_similar_faces", query |-> q, threshold |-> th, exclude |-> excl, result |-> FindSimilarFacesResult(db, q, th, excl)]
    /\ UNCHANGED <<db, fk_enforced, sess>>

SimilarCall == last.op = "find_similar_faces"

(* C17: find_similar_faces returns exactly the faces whose similarity to   *)
(* the query is >= threshold and whose Person is not in the exclude list,  *)
(* each once, sorted by score, non-increasing; a face with no Person is    *)
(* not excluded by an exclude list.                                        *)
C17_SimilarFacesExact ==
    SimilarCall =>
        /\ NonIncreasing(last.result)
        /\ Cardinality({last.result[i].face : i \in 1..Len(last.result)}) = Len(last.result)
        /\ \A i \in 1..Len(last.result) : last.result[i].score = SimToQuery(last.result[i].face)
        /\ {last.result[i].face : i \in 1..Len(last.result)} = {f \in 1..Len(db.faces) : SimToQuery(f) >= last.threshold /\ db.faces[f].person_id \notin Range(last.exclude)}

(* A variant that tests the mean alone.                                    *)
AssociationMeetsMean(sims, th) == SeqSum(sims) >= th * Len(sims)

(* max_similarity >= threshold or avg_similarity >= threshold; the mean    *)
(* meets the threshold when the sum is at least threshold * count.         *)
AssociationMeets(sims, th) == SeqMax(sims) >= th \/ SeqSum(sims) >= th * Len(sims)

(* auto_associate_to_user: pointer is user.person_id; user.person is None  *)
(* when it is null or names no row.  NoPerson stands for a None result.    *)
AutoAssociateResult(d, pointer, q, th) ==
    IF pointer = NoPerson \/ ~d.persons[pointer].exists THEN NoPerson
    ELSE LET fs == PersonFaces(d, pointer)
         IN IF Len(fs) = 0 THEN NoPerson
            ELSE IF AssociationMeets(Similarities(d, q, fs), th) THEN pointer ELSE NoPerson

AutoAssociateToUser(pointer, q, th) ==
    /\ last = NoCall
    /\ last' = [op |-> "auto_associate_to_user", pointer |-> pointer, query |-> q, threshold |-> th, result |-> AutoAssociateResult(db, pointer, q, th)]
    /\ UNCHANGED <<db, fk_enforced, sess>>

(* A variant without the Person.id != person_id filter.                    *)
OtherPersonsAll(d, p) == {o \in MPersonIds : d.persons[o].exists}

(* db.query(Person).filter(Person.id != person_id).all()                   *)
OtherPersons(d, p) == {o \in MPersonIds : d.persons[o].exists /\ o # p}

(* all_similarities: every face of the given Person against every face of *)
(* the other one.                                                          *)
PairSimilarities(d, fs, gs) == {CalculateSimilarity(d.faces[f].embedding, d.faces[g].embedding) : f \in Range(fs), g \in Range(gs)}

RECURSIVE SuggestionsUpTo(_, _, _, _)
SuggestionsUpTo(d, p, th, n) ==
    IF n = 0 THEN <<>>
    ELSE LET rest == SuggestionsUpTo(d, p, th, n - 1)
             gs == PersonFaces(d, n)
         IN IF n \notin OtherPersons(d, p) \/ Len(gs) = 0 THEN rest
            ELSE LET max_sim == SetMax(PairSimilarities(d, PersonFaces(d, p), gs))
                 IN IF max_sim >= th THEN Append(rest, [person |-> n, score |-> max_sim]) ELSE rest

SuggestPersonMergesResult(d, p, th) ==
    IF ~d.persons[p].exists \/ Len(PersonFaces(d, p)) = 0 THEN <<>>
    ELSE SortByScore(SuggestionsUpTo(d, p, th, MatchPersons))

SuggestPersonMerges(p, th) ==
    /\ last = NoCall
    /\ last' = [op |-> "suggest_person_merges", person_id |-> p, threshold |-> th, result |-> SuggestPersonMergesResult(db, p, th)]
    /\ UNCHANGED <<db, fk_enforced, sess>>

NextMatch ==
    \/ NextRequest
    \/ \E q \in Queries, th \in Thresholds, excl \in ExcludeLists : FindSimilarFaces(q, th, excl)
    \/ \E pointer \in {NoPerson} \cup MPersonIds, q \in Queries, th \in Thresholds : AutoAssociateToUser(pointer, q, th)
    \/ \E p \in MPersonIds, th \in Thresholds : SuggestPersonMerges(p, th)

SpecMatch == InitMatch /\ [][NextMatch]_vars

AutoCall == last.op = "auto_associate_to_user"

SuggestCall == last.op = "suggest_person_merges"

PairMax(p, o) == SetMax({CalculateSimilarity(db.faces[f].embedding, db.faces[g].embedding) : f \in FacesOfPerson(p), g \in FacesOfPerson(o)})

-----------------------------------------------------------------------------
(* FaceRecognizer.find_similar_faces (rank): a pure function of the query, *)
(* the mapping of candidate ids to embeddings and the threshold.           *)

MaxDict == 3

DictIds == 1..MaxDict

(* Candidate embeddings; the one of another length makes np.dot raise.     *)
RankEmb == Emb \cup {<<1>>}

(* A dict as the sequence of its items in insertion order: the keys are    *)
(* distinct.                                                               *)
Dicts ==
    {c \in UNION {[1..n -> [id : DictIds, embedding : RankEmb]] : n \in 0..MaxDict} :
        \A i \in 1..Len(c) : \A j \in 1..Len(c) : c[i].id = c[j].id => i = j}

(* A variant of the test that drops a candidate scoring the threshold.     *)
RankKeepsAbove(similarity, th) == similarity > th

(* if similarity >= threshold                                              *)
RankKeeps(similarity, th) == similarity >= th

RECURSIVE RankUpTo(_, _, _, _)
RankUpTo(q, c, th, n) ==
    IF n = 0 THEN <<>>
    ELSE LET rest == RankUpTo(q, c, th, n - 1)
             similarity == CalculateSimilarity(q, c[n].embedding)
         IN IF RankKeeps(similarity, th) THEN Append(rest, [face |-> c[n].id, score |-> similarity]) ELSE rest

RankResult(q, c, th) == SortByScore(RankUpTo(q, c, th, Len(c)))

(* The function reads no table: the database is the one init_db() leaves.  *)
InitRank ==
    /\ db = [persons |-> [p \in MPersonIds |-> [exists |-> FALSE, is_claimed |-> FALSE]], faces |-> <<>>]
    /\ fk_enforced = FALSE
    /\ last = NoCall
    /\ sess = <<>>

Rank(q, c, th) ==
    /\ last = NoCall
    /\ last' = [op |-> "rank", query |-> q, embeddings_dict |-> c, threshold |-> th, result |-> RankResult(q, c, th)]
    /\ UNCHANGED <<db, fk_enforced, sess>>

NextRank ==
    \/ NextRequest
    \/ \E q \in Queries, c \in Dicts, th \in Thresholds : Rank(q, c, th)

SpecRank == InitRank /\ [][NextRank]_vars

RankCall == last.op = "rank"

(* C20: rank returns exactly the candidate ids whose similarity to the     *)
(* query is >= threshold, each once with that similarity as its score,     *)
(* never an entry below the threshold, in non-increasing order of score;   *)
(* an empty candidate mapping gives an empty list.                         *)
C20_RankExact ==
    RankCall =>
        LET c == last.embeddings_dict
            sim(i) == CalculateSimilarity(last.query, c[i].embedding)
            listed(i) == {k \in 1..Len(last.result) : last.result[k].face = c[i].id}
        IN /\ NonIncreasing(last.result)
           /\ \A k \in 1..Len(last.result) : last.result[k].score >= last.threshold
           /\ \A k \in 1..Len(last.result) : \E i \in 1..Len(c) : last.result[k].face = c[i].id
           /\ \A i \in 1..Len(c) :
                 /\ Cardinality(listed(i)) = IF sim(i) >= last.threshold THEN 1 ELSE 0
                 /\ \A k \in listed(i) : last.result[k].score = sim(i)
           /\ Len(c) = 0 => last.result = <<>>

(* A call that kept a candidate scoring exactly the threshold, dropped     *)
(* another, and moved a later candidate ahead of an earlier one.           *)
C20_Witness ==
    /\ RankCall /\ Len(last.result) >= 2 /\ Len(last.result) < Len(last.embeddings_dict)
    /\ \E k \in 1..Len(last.result) : last.result[k].score = last.threshold
    /\ last.result[1].face = last.embeddings_dict[Len(last.embeddings_dict)].id
    /\ last.result[1].score > last.result[2].score

(* C21: a candidate whose embedding is malformed (here: of another         *)
(* dimension than the query) is treated as a non-match: rank never lists   *)
(* it, whatever the threshold.                                             *)
C21_MalformedNeverListed ==
    RankCall =>
        \A i \in 1..Len(last.embeddings_dict) :
            Len(last.embeddings_dict[i].embedding) # Len(last.query) =>
                \A k \in 1..Len(last.result) : last.result[k].face # last.embeddings_dict[i].id

-----------------------------------------------------------------------------
(* FaceClustering: cluster_faces runs DBSCAN with the cosine metric over   *)
(* the embeddings and groups the face ids by label; get_cluster_stats      *)
(* summarises a cluster mapping.  Both are pure functions.                 *)

MaxPoints == 4

MaxClusters == 3

(* The label DBSCAN gives a noise point.                                   *)
NoiseLabel == 0 - 1

(* L2-normalised embeddings: unit vectors.                                 *)
ClusterEmb == {<<1, 0>>, <<0, 1>>, <<0 - 1, 0>>}

(* embeddings_dict with the keys 1..n in insertion order.                  *)
ClusterInputs == UNION {[1..n -> ClusterEmb] : n \in 0..MaxPoints}

(* settings.dbscan_eps on the scale of the distances below                 *)
EpsValues == {0, 1}

(* settings.dbscan_min_samples                                             *)
MinSamplesValues == {1, 2, 3}

(* metric='cosine': 1 - cosine similarity, the dot product for unit        *)
(* vectors.                                                                *)
CosineDistance(a, b) == 1 - Dot(a, b)

(* The eps-neighbourhood of point i, the point itself included.            *)
Neighborhood(pts, eps, i) == {j \in 1..Len(pts) : CosineDistance(pts[i], pts[j]) <= eps}

(* A variant in which every point is a core point.                         *)
IsCoreAlways(pts, eps, ms, i) == TRUE

IsCore(pts, eps, ms, i) == Cardinality(Neighborhood(pts, eps, i)) >= ms

(* The points the expansion from a seed labels: the seed, and every point  *)
(* without a label in the neighbourhood of a core point already reached.   *)
RECURSIVE Expand(_, _, _, _, _)
Expand(pts, eps, ms, labels, reached) ==
    LET more == {v \in 1..Len(pts) : labels[v] = NoiseLabel /\ \E u \in reached : IsCore(pts, eps, ms, u) /\ v \in Neighborhood(pts, eps, u)}
    IN IF more \subseteq reached THEN reached ELSE Expand(pts, eps, ms, labels, reached \cup more)

(* The labels after the points 1..i have been visited, and the next label. *)
RECURSIVE DbscanUpTo(_, _, _, _)
DbscanUpTo(pts, eps, ms, i) ==
    IF i = 0 THEN [labels |-> [j \in 1..Len(pts) |-> NoiseLabel], label_num |-> 0]
    ELSE LET before == DbscanUpTo(pts, eps, ms, i - 1)
         IN IF before.labels[i] # NoiseLabel \/ ~IsCore(pts, eps, ms, i) THEN before
            ELSE LET cluster == Expand(pts, eps, ms, before.labels, {i})
                 IN [labels |-> [j \in 1..Len(pts) |-> IF j \in cluster THEN before.label_num ELSE before.labels[j]],
                     label_num |-> before.label_num + 1]

FitPredict(pts, eps, ms) == DbscanUpTo(pts, eps, ms, Len(pts)).labels

(* for face_id, label in zip(face_ids, labels): the dict as the sequence   *)
(* of its items in insertion order.                                        *)
RECURSIVE ClustersUpTo(_, _)
ClustersUpTo(labels, n) ==
    IF n = 0 THEN <<>>
    ELSE LET clusters == ClustersUpTo(labels, n - 1)
         IN IF labels[n] = NoiseLabel THEN clusters
            ELSE IF \E k \in 1..Len(clusters) : clusters[k].label = labels[n]
                 THEN [k \in 1..Len(clusters) |-> IF clusters[k].label = labels[n] THEN [clusters[k] EXCEPT !.faces = Append(@, n)] ELSE clusters[k]]
                 ELSE Append(clusters, [label |-> labels[n], faces |-> <<n>>])

(* An empty dict returns {} before DBSCAN is built; DBSCAN refuses an eps  *)
(* that is not positive and the exception leaves cluster_faces.            *)
ClusterFacesResult(pts, eps, ms) ==
    IF Len(pts) = 0 THEN [kind |-> "ok", clusters |-> <<>>]
    ELSE IF eps <= 0 THEN [kind |-> "raised", clusters |-> <<>>]
         ELSE [kind |-> "ok", clusters |-> ClustersUpTo(FitPredict(pts, eps, ms), Len(pts))]

ClusterFaces(pts, eps, ms) ==
    /\ last = NoCall
    /\ last' = [op |-> "cluster_faces", embeddings_dict |-> pts, eps |-> eps, min_samples |-> ms, result |-> ClusterFacesResult(pts, eps, ms)]
    /\ UNCHANGED <<db, fk_enforced, sess>>

(* Cluster mappings handed to get_cluster_stats: up to MaxClusters labels, *)
(* each with a list of up to MaxPoints face ids (an empty list included).  *)
StatsInputs ==
    UNION {[1..n -> {[label |-> l, faces |-> IdSeq(1..k)] : l \in 0..(MaxClusters - 1), k \in 0..MaxPoints}] : n \in 0..MaxClusters}

DistinctLabels(clusters) == \A i \in 1..Len(clusters) : \A j \in 1..Len(clusters) : clusters[i].label = clusters[j].label => i = j

SetMin(S) == CHOOSE x \in S : \A y \in S : x <= y

(* cluster_sizes = [len(faces) for faces in clusters.values()]             *)
ClusterSizes(clusters) == [k \in 1..Len(clusters) |-> Len(clusters[k].faces)]

(* A variant that divides by the number of clusters without the guard.     *)
MeanSizeUnguarded(sizes) == [num |-> SeqSum(sizes), den |-> Len(sizes)]

(* float(np.mean(cluster_sizes)) if cluster_sizes else 0.0, as the exact   *)
(* fraction num / den.                                                     *)
MeanSize(sizes) == IF Len(sizes) > 0 THEN [num |-> SeqSum(sizes), den |-> Len(sizes)] ELSE [num |-> 0, den |-> 1]

GetClusterStatsResult(clusters) ==
    LET cluster_sizes == ClusterSizes(clusters)
    IN [total_clusters |-> Len(clusters),
        total_faces_clustered |-> SeqSum(cluster_sizes),
        min_cluster_size |-> IF Len(cluster_sizes) > 0 THEN SetMin(Range(cluster_sizes)) ELSE 0,
        max_cluster_size |-> IF Len(cluster_sizes) > 0 THEN SetMax(Range(cluster_sizes)) ELSE 0,
        avg_cluster_size |-> MeanSize(cluster_sizes)]

GetClusterStats(clusters) ==
    /\ last = NoCall
    /\ last' = [op |-> "get_cluster_stats", clusters |-> clusters, result |-> GetClusterStatsResult(clusters)]
    /\ UNCHANGED <<db, fk_enforced, sess>>

(* Neither function reads a table: the database is the one init_db()       *)
(* leaves.                                                                 *)
InitCluster ==
    /\ db = [persons |-> [p \in MPersonIds |-> [exists |-> FALSE, is_claimed |-> FALSE]], faces |-> <<>>]
    /\ fk_enforced = FALSE
    /\ last = NoCall
    /\ sess = <<>>

NextCluster ==
    \/ NextRequest
    \/ last = NoCall /\ \E pts \in ClusterInputs, eps \in EpsValues, ms \in MinSamplesValues : ClusterFaces(pts, eps, ms)
    \/ last = NoCall /\ \E clusters \in StatsInputs : DistinctLabels(clusters) /\ GetClusterStats(clusters)

SpecCluster == InitCluster /\ [][NextCluster]_vars

ClusterCall == last.op = "cluster_faces"

StatsCall == last.op = "get_cluster_stats"

(* The ids cluster_faces hands back as noise: it returns the clusters dict *)
(* alone; noise faces are counted for the log line and returned nowhere.   *)
ReportedNoise == {}

ClusterOf(k) == Range(last.result.clusters[k].faces)

(* C22: the clustering result is a partition of the input ids: no cluster  *)
(* carries the noise label, and every input id is in exactly one cluster   *)
(* or in the reported noise, never in both.                                *)
C22_ClusterPartition ==
    ClusterCall /\ last.result.kind = "ok" =>
        /\ \A k \in 1..Len(last.result.clusters) : last.result.clusters[k].label # NoiseLabel
        /\ \A id \in 1..Len(last.embeddings_dict) :
              Cardinality({k \in 1..Len(last.result.clusters) : id \in ClusterOf(k)}) + (IF id \in ReportedNoise THEN 1 ELSE 0) = 1

(* C23: clustering an empty input returns an empty result without error;   *)
(* an input with fewer points than min_samples, a single point with        *)
(* min_samples > 1 in particular, yields no cluster (under a valid eps the *)
(* call returns, with every point noise); a single point with              *)
(* min_samples <= 1 is a cluster of its own.                               *)
C23_SmallInputs ==
    ClusterCall =>
        LET n == Len(last.embeddings_dict)
        IN /\ n = 0 => last.result = [kind |-> "ok", clusters |-> <<>>]
           /\ n < last.min_samples => last.result.clusters = <<>> /\ (last.eps > 0 => last.result.kind = "ok")
           /\ n = 1 /\ last.min_samples <= 1 /\ last.eps > 0 => Len(last.result.clusters) = 1 /\ ClusterOf(1) = {1}

(* Two points at distance 0 given to a clustering that asks for three:     *)
(* both are noise.                                                         *)
C23_Witness ==
    /\ ClusterCall /\ Len(last.embeddings_dict) = 2 /\ last.min_samples = 3 /\ last.eps > 0
    /\ last.embeddings_dict[1] = last.embeddings_dict[2]
    /\ last.result = [kind |-> "ok", clusters |-> <<>>]

(* C24: clustering a non-empty set of all-identical embeddings gives a     *)
(* single cluster that holds every input id, for every eps >= 0 and every  *)
(* min_samples.                                                            *)
C24_IdenticalOneCluster ==
    ClusterCall /\ Len(last.embeddings_dict) > 0 /\ (\A i \in 1..Len(last.embeddings_dict) : last.embeddings_dict[i] = last.embeddings_dict[1]) =>
        /\ last.result.kind = "ok"
        /\ Len(last.result.clusters) = 1
        /\ ClusterOf(1) = 1..Len(last.embeddings_dict)

(* C25: get_cluster_stats returns the number of clusters, the sum of the   *)
(* cluster sizes, the smallest and the largest size and, as the average,   *)
(* the sum divided by the number of clusters; for an empty mapping all     *)
(* five are 0 and nothing is divided by zero.                              *)
C25_StatsExact ==
    StatsCall =>
        LET c == last.clusters
            r == last.result
            sizes == {Len(c[k].faces) : k \in 1..Len(c)}
        IN /\ r.total_clusters = Len(c)
           /\ r.total_faces_clustered = SumOver(1..Len(c), [k \in 1..Len(c) |-> Len(c[k].faces)])
           /\ r.avg_cluster_size.den # 0
           /\ IF Len(c) = 0
              THEN r.min_cluster_size = 0 /\ r.max_cluster_size = 0 /\ r.total_faces_clustered = 0 /\ r.avg_cluster_size.num = 0
              ELSE /\ r.min_cluster_size \in sizes /\ \A s \in sizes : r.min_cluster_size <= s
                   /\ r.max_cluster_size \in sizes /\ \A s \in sizes : r.max_cluster_size >= s
                   /\ r.avg_cluster_size.num * r.total_clusters = r.total_faces_clustered * r.avg_cluster_size.den

(* The statistics of an empty mapping were asked for.                      *)
C25_Witness == StatsCall /\ Len(last.clusters) = 0 /\ last.result.avg_cluster_size = [num |-> 0, den |-> 1]

-----------------------------------------------------------------------------
(* DELETE /persons/{person_id} (routes/person.py), served next to the      *)
(* calls of ClaimService.                                                  *)

(* The bulk UPDATE that unlinks the faces is sent inside the transaction;  *)
(* db.delete(person) then finds no face left in the Person's collection,   *)
(* so the cascade deletes none.  A missing Person answers 404.             *)
DeleteRun(d, p) ==
    LET s == [IdleSession EXCEPT !.op = "delete", !.target = p, !.start = d]
    IN IF ~PersonExists(d, p)
       THEN [s EXCEPT !.pc = "done", !.result = [NoResult EXCEPT !.kind = "error"]]
       ELSE [s EXCEPT !.pc = "commit",
                      !.tx_faces = [f \in FaceIds |-> IF f \in FacesOf(d, p) THEN NoPerson ELSE @[f]],
                      !.deleted = {p},
                      !.result = [NoResult EXCEPT !.kind = "ok", !.ok = TRUE]]

DeletePerson(p) ==
    /\ last = NoCall
    /\ LET s == DeleteRun(db, p)
           o == Outcome(db, s, fk_enforced, s.result)
       IN /\ db' = o.db
          /\ last' = [NoCall EXCEPT !.op = "delete", !.target = p, !.pre = db, !.result = o.result]
    /\ UNCHANGED <<fk_enforced, sess>>

NextWithDelete ==
    \/ Next
    \/ \E p \in PersonIds : DeletePerson(p)

SpecWithDelete == Init /\ [][NextWithDelete]_vars

(* C26: after any sequence of claims, merges and deletions every Face with *)
(* a person_id and every User with a primary person_id refers to a Person  *)
(* that still exists.                                                      *)
C26_ReferentialIntegrity ==
    /\ \A f \in FaceIds : db.faces[f].exists /\ db.faces[f].person_id # NoPerson => PersonExists(db, db.faces[f].person_id)
    /\ \A u \in Users : db.users[u].exists /\ db.users[u].person_id # NoPerson => PersonExists(db, db.users[u].person_id)

-----------------------------------------------------------------------------
(* The core API (routes/core.py over models_core.py): Person and Face      *)
(* tables without users.  POST /persons/merge works on ORM objects in a    *)
(* session with autoflush=False.                                           *)

CoreNames == {NoName, "custom"}

AbsentCorePerson == [exists |-> FALSE, name |-> NoName]

(* The tables the core API can hold: Persons made by POST /persons or by   *)
(* clustering, Faces without a Person (as detected) or assigned to one.    *)
CoreDbs ==
    {d \in [persons : [PersonIds -> {AbsentCorePerson, [exists |-> TRUE, name |-> NoName]}], faces : [FaceIds -> [exists : BOOLEAN, person_id : {NoPerson} \cup PersonIds]]] :
        \A f \in FaceIds : /\ ~d.faces[f].exists => d.faces[f] = AbsentFace
                           /\ d.faces[f].person_id # NoPerson => d.persons[d.faces[f].person_id].exists}

CoreMergeStart == [deleted |-> {}, deleted_faces |-> {}, faces_transferred |-> 0, deleted_ids |-> <<>>]

(* One iteration of the loop over source_person_ids.  The query reads the  *)
(* committed rows (nothing is flushed before commit), so a source deleted  *)
(* earlier in the loop is found again; source.faces is the collection as   *)
(* loaded from those rows.  Assigning face.person_id leaves the faces in   *)
(* that collection, and db.delete(source) cascades the delete to every     *)
(* face the collection holds (cascade="all, delete-orphan").               *)
CoreMergeIter(d, s, source_id) ==
    IF ~PersonExists(d, source_id) THEN s
    ELSE [s EXCEPT !.deleted = @ \cup {source_id},
                   !.deleted_faces = @ \cup FacesOf(d, source_id),
                   !.faces_transferred = @ + Cardinality(FacesOf(d, source_id)),
                   !.deleted_ids = Append(@, source_id)]

RECURSIVE CoreMergeLoop(_, _, _)
CoreMergeLoop(d, ids, n) == IF n = 0 THEN CoreMergeStart ELSE CoreMergeIter(d, CoreMergeLoop(d, ids, n - 1), ids[n])

(* db.commit(): the rows marked deleted are deleted; the name is written   *)
(* to a target that is not among them.                                     *)
CoreMergeCommit(d, target, keep_name, s) ==
    [persons |-> [p \in PersonIds |->
                    IF p \in s.deleted THEN AbsentCorePerson
                    ELSE IF p = target /\ keep_name # NoName THEN [d.persons[p] EXCEPT !.name = keep_name]
                         ELSE d.persons[p]],
     faces |-> [f \in FaceIds |-> IF f \in s.deleted_faces THEN AbsentFace ELSE d.faces[f]]]

InitCore ==
    /\ db \in CoreDbs
    /\ fk_enforced \in BOOLEAN
    /\ last = NoCall
    /\ sess = <<>>

(* A missing target answers 404 before anything is written.                *)
CoreMergePersons(target, ids, keep_name) ==
    /\ last = NoCall
    /\ IF ~PersonExists(db, target)
       THEN /\ last' = [op |-> "core_merge", target |-> target, ids |-> ids, pre |-> db, result |-> [kind |-> "not_found", faces_transferred |-> 0, deleted_person_ids |-> <<>>]]
            /\ db' = db
       ELSE LET s == CoreMergeLoop(db, ids, Len(ids))
            IN /\ last' = [op |-> "core_merge", target |-> target, ids |-> ids, pre |-> db, result |-> [kind |-> "committed", faces_transferred |-> s.faces_transferred, deleted_person_ids |-> s.deleted_ids]]
               /\ db' = CoreMergeCommit(db, target, keep_name, s)
    /\ UNCHANGED <<fk_enforced, sess>>

NextCore ==
    \/ NextRequest
    \/ \E target \in PersonIds, ids \in IdLists, keep_name \in CoreNames : CoreMergePersons(target, ids, keep_name)

SpecCore == InitCore /\ [][NextCore]_vars

CoreMergeCall == last.op = "core_merge"

(* C27: after POST /persons/merge on an existing target, whatever the      *)
(* source list (one that names the target included), the target still      *)
(* exists and every Face that belonged to the target or to an existing     *)
(* source still exists and belongs to the target.                          *)
C27_CoreMergeKeepsFaces ==
    CoreMergeCall /\ PersonExists(last.pre, last.target) =>
        /\ PersonExists(db, last.target)
        /\ \A f \in FaceIds :
              last.pre.faces[f].exists /\ (last.pre.faces[f].person_id = last.target \/ (last.pre.faces[f].person_id \in Range(last.ids) /\ PersonExists(last.pre, last.pre.faces[f].person_id))) =>
                  db.faces[f].exists /\ db.faces[f].person_id = last.target

-----------------------------------------------------------------------------
(* The threshold test of auto_associate_to_user on floating-point numbers. *)
(* Similarities are floats; np.mean adds them one after the other and      *)
(* divides by the count, each operation rounded to the nearest float (ties *)
(* to even).  The model keeps the rounding and shortens the significand    *)
(* from 53 bits to Precision bits: a float is an integer of the form       *)
(* m * 2^e with 2^(Precision-1) <= m < 2^Precision.                        *)

Precision == 5

MaxSims == 3

(* Similarities and thresholds in the binade where neighbouring floats are *)
(* 1 apart.                                                                *)
SimValues == 24..28

MeanThresholds == 24..29

SimLists == UNION {[1..n -> SimValues] : n \in 1..MaxSims}

(* The distance between neighbouring floats around the value x >= 2^(Precision-1). *)
RECURSIVE Ulp(_)
Ulp(x) == IF x < 2^Precision THEN 1 ELSE 2 * Ulp(x \div 2)

(* The float nearest to num / den, ties to the even significand.           *)
RoundNearest(num, den) ==
    LET u == Ulp(num \div den)
        lower == ((num \div den) \div u) * u
        upper == lower + u
    IN IF 2 * num < (lower + upper) * den THEN lower
       ELSE IF 2 * num > (lower + upper) * den THEN upper
            ELSE IF (lower \div u) % 2 = 0 THEN lower ELSE upper

RECURSIVE FloatSum(_)
FloatSum(q) == IF Len(q) = 1 THEN q[1] ELSE RoundNearest(FloatSum(SubSeq(q, 1, Len(q) - 1)) + q[Len(q)], 1)

(* np.mean(similarities)                                                   *)
NpMean(q) == RoundNearest(FloatSum(q), Len(q))

(* A variant that asks for both the maximum and the mean.                  *)
AssociationTestBoth(sims, th) ==
    LET avg_similarity == NpMean(sims)
        max_similarity == SeqMax(sims)
    IN [avg_similarity |-> avg_similarity, max_similarity |-> max_similarity, associated |-> (max_similarity >= th /\ avg_similarity >= th)]

(* if max_similarity >= threshold or avg_similarity >= threshold           *)
AssociationTestResult(sims, th) ==
    LET avg_similarity == NpMean(sims)
        max_similarity == SeqMax(sims)
    IN [avg_similarity |-> avg_similarity, max_similarity |-> max_similarity, associated |-> (max_similarity >= th \/ avg_similarity >= th)]

(* The test reads no table: the database is the one init_db() leaves.      *)
InitMean ==
    /\ db = [persons |-> [p \in MPersonIds |-> [exists |-> FALSE, is_claimed |-> FALSE]], faces |-> <<>>]
    /\ fk_enforced = FALSE
    /\ last = NoCall
    /\ sess = <<>>

AssociationTest(sims, th) ==
    /\ last = NoCall
    /\ last' = [op |-> "association_test", similarities |-> sims, threshold |-> th, result |-> AssociationTestResult(sims, th)]
    /\ UNCHANGED <<db, fk_enforced, sess>>

NextMean ==
    \/ NextRequest
    \/ \E sims \in SimLists, th \in MeanThresholds : AssociationTest(sims, th)

SpecMean == InitMean /\ [][NextMean]_vars

AssociationCall == last.op = "association_test"

(* C28: the mean test never changes the outcome: the Person is returned    *)
(* exactly when the largest similarity is >= threshold.                    *)
C28_MeanTestRedundant ==
    AssociationCall => (last.result.associated <=> \E i \in 1..Len(last.similarities) : last.similarities[i] >= last.threshold)

(* C28, as the code has it: a largest similarity >= threshold always       *)
(* returns the Person, and the mean test changes the outcome only through  *)
(* rounding: whenever np.mean returns the exact mean of the similarities,  *)
(* the Person is returned exactly when the largest similarity is >=        *)
(* threshold.                                                              *)
C28_MeanTestRedundantWhenExact ==
    AssociationCall =>
        LET sims == last.similarities
            max_meets == \E i \in 1..Len(sims) : sims[i] >= last.threshold
            exact == last.result.avg_similarity * Len(sims) = SeqSum(sims)
        IN /\ max_meets => last.result.associated
           /\ exact => (last.result.associated <=> max_meets)

(* Similarities that differ, their mean computed exactly, and a threshold  *)
(* above the largest of them: no association.                              *)
C28_Witness ==
    /\ AssociationCall /\ Len(last.similarities) >= 2
    /\ last.similarities[1] # last.similarities[2]
    /\ last.result.avg_similarity * Len(last.similarities) = SeqSum(last.similarities)
    /\ last.result.max_similarity < last.threshold
    /\ ~last.result.associated

-----------------------------------------------------------------------------
(* auth/api_key.py: _enforce_rate_limit.  Requests run on threads; each    *)
(* reads the limit and the clock, then takes _rate_limit_lock and runs the *)
(* block under it.  Here db is the module state (the _rate_limit_state     *)
(* dict, the clock and each key's limit), sess the requests in flight and  *)
(* last a record of how many requests were admitted per key and window.    *)

MaxRequests == 4

MaxWindow == 1

Requests == 1..MaxRequests

Windows == 0..MaxWindow

Prefixes == {"k1", "k2"}

(* api_key.rate_limit_per_minute or settings.core_api_rate_limit_per_minute, *)
(* not zero.                                                               *)
RateLimits == {1, 2}

(* _rate_limit_state.get(prefix) is None                                   *)
NoRateState == [window |-> 0 - 1, count |-> 0]

IdleRequest == [pc |-> "idle", prefix |-> "k1", window |-> 0, outcome |-> "none"]

InitRate ==
    /\ db \in [state : {[k \in Prefixes |-> NoRateState]}, clock : {0}, limit : [Prefixes -> RateLimits]]
    /\ fk_enforced = FALSE
    /\ last = [admitted |-> [k \in Prefixes |-> [w \in Windows |-> 0]]]
    /\ sess = [r \in Requests |-> IdleRequest]

(* time.time() moves into the next minute.                                 *)
Tick ==
    /\ db.clock < MaxWindow
    /\ db' = [db EXCEPT !.clock = @ + 1]
    /\ UNCHANGED <<fk_enforced, last, sess>>

(* window = int(time.time() // 60), read before the lock is taken.         *)
ComputeWindow(r, k) ==
    /\ sess[r].pc = "idle"
    /\ sess' = [sess EXCEPT ![r] = [pc |-> "waiting", prefix |-> k, window |-> db.clock, outcome |-> "none"]]
    /\ UNCHANGED <<db, fk_enforced, last>>

(* The block under the lock: the stored state of the key afterwards and    *)
(* whether the request passes (no HTTP 429).                               *)
LockedBlock(d, k, window) ==
    LET state == d.state[k]
    IN IF state = NoRateState \/ state.window # window
       THEN [state |-> [window |-> window, count |-> 1], admitted |-> TRUE]
       ELSE IF state.count >= d.limit[k] THEN [state |-> state, admitted |-> FALSE]
            ELSE [state |-> [state EXCEPT !.count = @ + 1], admitted |-> TRUE]

(* with _rate_limit_lock: ...  The lock makes the blocks of different      *)
(* requests run one after the other, so the block is one step.             *)
EnterLock(r) ==
    /\ sess[r].pc = "waiting"
    /\ LET o == LockedBlock(db, sess[r].prefix, sess[r].window)
       IN /\ db' = [db EXCEPT !.state[sess[r].prefix] = o.state]
          /\ sess' = [sess EXCEPT ![r].pc = "done", ![r].outcome = IF o.admitted THEN "admitted" ELSE "429"]
          /\ last' = IF o.admitted THEN [last EXCEPT !.admitted[sess[r].prefix][sess[r].window] = @ + 1] ELSE last
    /\ UNCHANGED fk_enforced

NextRate ==
    \/ Tick
    \/ \E r \in Requests, k \in Prefixes : ComputeWindow(r, k)
    \/ \E r \in Requests : EnterLock(r)

SpecRate == InitRate /\ [][NextRate]_vars

(* C29: for each key and each one-minute window at most `limit` requests   *)
(* stamped with that window are admitted, under any interleaving, and the  *)
(* stored count of a key never exceeds its limit.                          *)
C29_AtMostLimitPerWindow ==
    /\ \A k \in Prefixes : \A w \in Windows : last.admitted[k][w] <= db.limit[k]
    /\ \A k \in Prefixes : db.state[k].count <= db.limit[k]

-----------------------------------------------------------------------------
(* ApiKeyService (services/api_key_service.py).  Here db is the api_keys   *)
(* table (a row's id is its position), the clock, and two facts of the     *)
(* deployment: whether the table refuses a second row with the same prefix *)
(* or key_hash, and whether the store hands datetimes back without a time  *)
(* zone (SQLite, the default database_url, does).  last is the last call.  *)
(* verify_api_key also writes last_used_at; no lookup reads that column    *)
(* and it is left out.                                                     *)

MaxKeys == 3

MaxTime == 1

NoPrefix == 0 - 1

NoExpiry == 0 - 1

NoKey == 0

(* The prefix ensure_bootstrap_key derives from the hash of a key without  *)
(* a dot.                                                                  *)
BootPrefix == 0

(* settings.core_api_bootstrap_key: a plain string without a dot.          *)
BootstrapRaw == [prefix |-> NoPrefix, secret |-> 0]

(* f"{prefix}.{secret}" of the key stored in row n: a fresh prefix and a   *)
(* fresh secret.                                                           *)
RawOf(n) == [prefix |-> n, secret |-> n]

(* A raw key with the prefix of row n and another secret.                  *)
ForgedRaw(n) == [prefix |-> n, secret |-> 0]

RawKeys == {BootstrapRaw} \cup {RawOf(n) : n \in 1..MaxKeys} \cup {ForgedRaw(n) : n \in 1..MaxKeys}

(* sha256 of the raw key: different keys, different digests.               *)
HashKey(raw) == <<"sha256", raw.prefix, raw.secret>>

ExpiryValues == {NoExpiry} \cup (0..MaxTime)

KeyIds(d) == 1..Len(d.keys)

NewKeyRow(prefix, raw, expires_at, rotated_from_id) ==
    [prefix |-> prefix, key_hash |-> HashKey(raw), is_active |-> TRUE, expires_at |-> expires_at, rotated_from_id |-> rotated_from_id]

(* .filter(ApiKey.prefix == prefix).first(): with no ORDER BY any matching *)
(* row can be the first.                                                   *)
RowsByPrefix(d, prefix) == {n \in KeyIds(d) : d.keys[n].prefix = prefix}

RowsByHash(d, key_hash) == {n \in KeyIds(d) : d.keys[n].key_hash = key_hash}

(* The rows the two lookups of verify_api_key can hand back.               *)
VerifyCandidates(d, raw) ==
    IF raw.prefix # NoPrefix /\ RowsByPrefix(d, raw.prefix) # {} THEN RowsByPrefix(d, raw.prefix)
    ELSE RowsByHash(d, HashKey(raw))

(* The checks on the row found: is_active, expires_at <= now (comparing a  *)
(* naive expires_at with the aware now raises TypeError), the digest.      *)
VerifyRow(d, raw, n) ==
    IF ~d.keys[n].is_active THEN [kind |-> "none", key |-> NoKey]
    ELSE IF d.keys[n].expires_at # NoExpiry /\ d.naive_datetimes THEN [kind |-> "raise", key |-> NoKey]
         ELSE IF d.keys[n].expires_at # NoExpiry /\ d.keys[n].expires_at <= d.now THEN [kind |-> "none", key |-> NoKey]
              ELSE IF d.keys[n].key_hash # HashKey(raw) THEN [kind |-> "none", key |-> NoKey]
                   ELSE [kind |-> "record", key |-> n]

(* What verify_api_key can return.                                         *)
VerifyResults(d, raw) ==
    IF VerifyCandidates(d, raw) = {} THEN {[kind |-> "none", key |-> NoKey]}
    ELSE {VerifyRow(d, raw, n) : n \in VerifyCandidates(d, raw)}

KeyCall(op, raw, result) == [op |-> op, raw |-> raw, result |-> result]

InitKeys ==
    /\ db \in [keys : {<<>>}, now : {0}, unique_keys : BOOLEAN, naive_datetimes : BOOLEAN]
    /\ fk_enforced = FALSE
    /\ last = NoCall
    /\ sess = <<>>

KeyClockTick ==
    /\ last = NoCall
    /\ db.now < MaxTime
    /\ db' = [db EXCEPT !.now = @ + 1]
    /\ UNCHANGED <<fk_enforced, last, sess>>

CreateApiKey(expires_at) ==
    /\ last = NoCall
    /\ Len(db.keys) < MaxKeys
    /\ LET n == Len(db.keys) + 1
       IN /\ db' = [db EXCEPT !.keys = Append(@, NewKeyRow(n, RawOf(n), expires_at, NoKey))]
          /\ last' = KeyCall("create", RawOf(n), [kind |-> "record", key |-> n])
    /\ UNCHANGED <<fk_enforced, sess>>

(* source_key = get_api_key_by_prefix(prefix); a new key is created with   *)
(* rotated_from = source_key; the old one is deactivated if revoke_old.    *)
RotateApiKey(prefix, expires_at, revoke_old) ==
    /\ last = NoCall
    /\ Len(db.keys) < MaxKeys
    /\ IF RowsByPrefix(db, prefix) = {}
       THEN /\ db' = db
            /\ last' = KeyCall("rotate", BootstrapRaw, [kind |-> "raise", key |-> NoKey])
       ELSE \E source_key \in RowsByPrefix(db, prefix) :
              LET n == Len(db.keys) + 1
                  created == Append(db.keys, NewKeyRow(n, RawOf(n), expires_at, source_key))
              IN /\ db' = [db EXCEPT !.keys = IF revoke_old THEN [created EXCEPT ![source_key].is_active = FALSE] ELSE created]
                 /\ last' = KeyCall("rotate", RawOf(n), [kind |-> "record", key |-> n])
    /\ UNCHANGED <<fk_enforced, sess>>

RevokeApiKey(prefix) ==
    /\ last = NoCall
    /\ IF RowsByPrefix(db, prefix) = {}
       THEN /\ db' = db
            /\ last' = KeyCall("revoke", BootstrapRaw, [kind |-> "raise", key |-> NoKey])
       ELSE \E api_key \in RowsByPrefix(db, prefix) :
              /\ db' = [db EXCEPT !.keys[api_key].is_active = FALSE]
              /\ last' = KeyCall("revoke", BootstrapRaw, [kind |-> "record", key |-> api_key])
    /\ UNCHANGED <<fk_enforced, sess>>

VerifyApiKey(raw) ==
    /\ last = NoCall
    /\ \E result \in VerifyResults(db, raw) : last' = KeyCall("verify", raw, result)
    /\ UNCHANGED <<db, fk_enforced, sess>>

(* init_db() at every start of the application: the configured key is     *)
(* verified and, when that gives None, inserted as a new active row.  The  *)
(* INSERT raises IntegrityError where the table refuses the duplicate.     *)
EnsureBootstrapKey ==
    /\ last = NoCall
    /\ \E existing \in VerifyResults(db, BootstrapRaw) :
          IF existing.kind # "none"
          THEN /\ db' = db
               /\ last' = KeyCall("ensure_bootstrap_key", BootstrapRaw, existing)
          ELSE IF db.unique_keys /\ (RowsByPrefix(db, BootPrefix) # {} \/ RowsByHash(db, HashKey(BootstrapRaw)) # {})
               THEN /\ db' = db
                    /\ last' = KeyCall("ensure_bootstrap_key", BootstrapRaw, [kind |-> "raise", key |-> NoKey])
               ELSE /\ Len(db.keys) < MaxKeys
                    /\ db' = [db EXCEPT !.keys = Append(@, NewKeyRow(BootPrefix, BootstrapRaw, NoExpiry, NoKey))]
                    /\ last' = KeyCall("ensure_bootstrap_key", BootstrapRaw, [kind |-> "record", key |-> Len(db.keys) + 1])
    /\ UNCHANGED <<fk_enforced, sess>>

NextKeys ==
    \/ NextRequest
    \/ KeyClockTick
    \/ \E expires_at \in ExpiryValues : CreateApiKey(expires_at)
    \/ \E prefix \in 0..MaxKeys, expires_at \in ExpiryValues, revoke_old \in BOOLEAN : RotateApiKey(prefix, expires_at, revoke_old)
    \/ \E prefix \in 0..MaxKeys : RevokeApiKey(prefix)
    \/ \E raw \in RawKeys : VerifyApiKey(raw)
    \/ EnsureBootstrapKey

SpecKeys == InitKeys /\ [][NextKeys]_vars

VerifyCall == last.op = "verify"

(* C30: verify_api_key on the raw key of a deactivated row returns None in *)
(* every later state, whatever calls came in between; and the raw key a    *)
(* rotation returned verifies (its own row is returned) as long as that    *)
(* row is active and not expired.                                          *)
C30_DeactivatedNeverVerifies ==
    VerifyCall =>
        /\ (\E n \in KeyIds(db) : db.keys[n].key_hash = HashKey(last.raw) /\ ~db.keys[n].is_active) => last.result.kind = "none"
        /\ \A n \in KeyIds(db) :
              /\ last.raw = RawOf(n) /\ db.keys[n].key_hash = HashKey(last.raw) /\ db.keys[n].rotated_from_id # NoKey
              /\ db.keys[n].is_active /\ (db.keys[n].expires_at = NoExpiry \/ db.keys[n].expires_at > db.now)
              => last.result = [kind |-> "record", key |-> n]

=============================================================================
